---- MODULE Spec2Model ----
(***************************************************************************)
(* Model of ts_modeling/tree/tree.py: Node (an anytree NodeMixin) and      *)
(* TTree.  Node objects live in a heap indexed by 1..NumNodes, in order of *)
(* construction.  Spec drives one TTree; SpecTwo drives two TTree objects  *)
(* over the same heap, so that a node numbered by one tree can be handed   *)
(* to the other; SpecCopy adds Node.copy to a client of one tree, and      *)
(* SpecPickle a client that builds a tree, saves it and loads the file.    *)
(* Every method call is one atomic step (the program is     *)
(* single-threaded); an exception raised part-way leaves the mutations     *)
(* made before it in place, exactly as the Python code does.               *)
(*                                                                         *)
(* The properties are stated as pre/post conditions: in every reachable    *)
(* state, for every argument, the result s -> r of the method satisfies    *)
(* the property.  View(t) is the state s the method starts from.           *)
(***************************************************************************)
EXTENDS Integers, Sequences, FiniteSets, TLC

\* ---------------------------------------------------------------- bounds
NumNodes == 4
MaxId == 4
MaxPathLen == 2

\* ------------------------------------------------------------- constants
\* Python None as a node reference (parent: Node = None)
NoNode == 0
\* Python None as an identifier (self.id = None)
NoId == -1
\* the operations handed to Node(function): testops.root for a tree's root,
\* testops.op1 and testops.op2 for the other nodes; a function stands for
\* its __name__ (Node.name = function.__name__)
RootFunction == "root"
Functions == {"op1", "op2"}
\* the function slot of a Node object that is not constructed yet
NoFunction == "unallocated"

Nodes == 1..NumNodes

VARIABLES
  allocated,    \* the Node objects constructed so far are 1..allocated
  parent,       \* Node.parent (anytree), NoNode for None
  children,     \* Node.children (anytree), in order
  id,           \* Node.id, NoId for None
  root,         \* TTree.root, one entry per TTree object
  id_iterator,  \* TTree.id_iterator
  nodes,        \* TTree.__nodes
  err,          \* the exception the last call raised, "none" if it returned
  function,     \* Node.function (and Node.name, its __name__)
  file,         \* the file of save/load_tree: <<>> until written, then <<bytes>>
  loaded        \* the object graph load_tree returned: <<>>, then <<tree>>

vars == <<allocated, parent, children, id, root, id_iterator, nodes, err,
          function, file, loaded>>

Trees == DOMAIN root
Live == 1..allocated
LiveOrNone == Live \cup {NoNode}

\* ----------------------------------------------------------- helpers
Range(s) == {s[i] : i \in 1..Len(s)}

\* all sequences over S of length 0..n
RECURSIVE SeqsUpTo(_, _)
SeqsUpTo(S, n) ==
  IF n = 0 THEN {<<>>}
  ELSE LET shorter == SeqsUpTo(S, n - 1)
       IN shorter \cup {Append(q, x) : q \in {r \in shorter : Len(r) = n - 1}, x \in S}

\* anytree NodeMixin.iter_path_reverse: the node, its parent, ... up to the top
RECURSIVE PathReverse(_, _)
PathReverse(par, n) ==
  IF par[n] = NoNode THEN {n} ELSE {n} \cup PathReverse(par, par[n])

\* anytree PostOrderIter(node): children (in order) first, then the node
RECURSIVE PostOrderIter(_, _)
RECURSIVE PostOrderList(_, _)
PostOrderIter(ch, n) == PostOrderList(ch, ch[n]) \o <<n>>
PostOrderList(ch, cs) ==
  IF cs = <<>> THEN <<>> ELSE PostOrderIter(ch, Head(cs)) \o PostOrderList(ch, Tail(cs))

\* the nodes reachable from n through children links (n included)
Reachable(ch, n) == Range(PostOrderIter(ch, n))

\* Python truthiness of node.id: None and 0 are both falsy
Truthy(i) == i # NoId /\ i # 0

\* ----------------------------------------------------------- Node
\* Node.set_parent: self.parent = parent, through anytree's parent setter:
\* nothing if the parent is the same object; LoopError if the new parent is
\* the node or one of its descendants; otherwise detach from the old
\* parent's children and append to the new parent's children.
SetParent(s, n, value) ==
  LET old == s.parent[n] IN
  IF old = value THEN s
  ELSE IF value # NoNode /\ n \in PathReverse(s.parent, value)
       THEN [s EXCEPT !.err = "LoopError"]
  ELSE LET ch1 == IF old # NoNode
                  THEN [s.children EXCEPT ![old] = SelectSeq(@, LAMBDA c : c # n)]
                  ELSE s.children
           ch2 == IF value # NoNode
                  THEN [ch1 EXCEPT ![value] = Append(@, n)]
                  ELSE ch1
       IN [s EXCEPT !.parent = [@ EXCEPT ![n] = value], !.children = ch2]

\* ----------------------------------------------------------- TTree
\* TTree.set_id: node.set_id(self.id_iterator); self.id_iterator += 1
set_id(s, n) ==
  [s EXCEPT !.id = [@ EXCEPT ![n] = s.id_iterator],
            !.id_iterator = @ + 1]

\* TTree.add_node
add_node(s, target, new_node) ==
  IF target # NoNode /\ new_node # NoNode
  THEN IF target \in Range(s.nodes)
       THEN LET s1 == SetParent(s, new_node, target) IN
            IF s1.err # "none" THEN s1
            ELSE set_id([s1 EXCEPT !.nodes = Append(@, new_node)], new_node)
       ELSE s
  ELSE s

\* TTree.add_nodes: the body is "pass"
add_nodes(s, target, new_nodes) == s

\* tree.add_nodes_byid(...): class TTree defines no such method (the module
\* docstring lists it under Todo), so the call raises AttributeError
add_nodes_byid(s, target_id, new_nodes) == [s EXCEPT !.err = "AttributeError"]

\* TTree.__add_newpath_byref, the loop "for i in range(1, len(path))"
RECURSIVE byref_loop(_, _, _)
byref_loop(s, path, i) ==
  IF i > Len(path) THEN s
  ELSE LET s1 == SetParent(s, path[i], path[i - 1]) IN
       IF s1.err # "none" THEN s1
       ELSE byref_loop(set_id(s1, path[i]), path, i + 1)

\* TTree.__add_newpath_byref
add_newpath_byref(s, target, path) ==
  IF Len(path) = 0 THEN [s EXCEPT !.err = "IndexError"]
  ELSE LET s1 == SetParent(s, path[1], target) IN
       IF s1.err # "none" THEN s1
       ELSE byref_loop(set_id(s1, path[1]), path, 2)

\* a path argument: a Python list of nodes, or a single Node object
ListArg(q) == [islist |-> TRUE, node |-> NoNode, items |-> q]
NodeArg(n) == [islist |-> FALSE, node |-> n, items |-> <<>>]

\* "if(type(path) is not list): path = [path]"
AsList(path) == IF path.islist THEN path.items ELSE <<path.node>>

\* "for node in path: if node.id: raise Exception(...)"
HasIdCheck(s, path) == \E i \in 1..Len(path) : Truthy(s.id[path[i]])

\* TTree.add_newpath
add_newpath(s, target, path0) ==
  LET path == AsList(path0) IN
  IF HasIdCheck(s, path) THEN [s EXCEPT !.err = "Exception"]
  ELSE add_newpath_byref(s, target, path)

\* the loop "for target in targets" of add_newpath_byid
RECURSIVE byid_loop(_, _, _)
byid_loop(s, targets, path) ==
  IF targets = <<>> THEN s
  ELSE LET s1 == add_newpath_byref(s, Head(targets), path) IN
       IF s1.err # "none" THEN s1
       ELSE byid_loop(s1, Tail(targets), path)

\* a resolution that forgets the filter and takes the root as well
TargetsWithRoot(s, target_id) ==
  SelectSeq(PostOrderIter(s.children, s.root),
            LAMBDA n : s.id[n] = target_id \/ n = s.root)

\* the targets of add_newpath_byid: PostOrderIter(self.root, n.id == target_id)
Targets(s, target_id) ==
  SelectSeq(PostOrderIter(s.children, s.root), LAMBDA n : s.id[n] = target_id)

\* a by-identifier attach that falls back to the root when nothing matches
add_newpath_byid_orroot(s, target_id, path0) ==
  LET path == AsList(path0)
      targets == Targets(s, target_id)
  IN IF HasIdCheck(s, path) THEN [s EXCEPT !.err = "Exception"]
     ELSE byid_loop(s, IF targets = <<>> THEN <<s.root>> ELSE targets, path)

\* TTree.add_newpath_byid
add_newpath_byid(s, target_id, path0) ==
  LET path == AsList(path0) IN
  IF HasIdCheck(s, path) THEN [s EXCEPT !.err = "Exception"]
  ELSE byid_loop(s, Targets(s, target_id), path)

\* ----------------------------------------------------------- state machine
\* the view a method of tree t has of the heap and of its own fields
View(t) ==
  [parent |-> parent, children |-> children, id |-> id, root |-> root[t],
   id_iterator |-> id_iterator[t], nodes |-> nodes[t], err |-> "none"]

\* write back the result r of a method of tree t
Commit(t, r) ==
  /\ r.id_iterator <= MaxId
  /\ parent' = r.parent
  /\ children' = r.children
  /\ id' = r.id
  /\ id_iterator' = [id_iterator EXCEPT ![t] = r.id_iterator]
  /\ nodes' = [nodes EXCEPT ![t] = r.nodes]
  /\ err' = r.err
  /\ UNCHANGED <<allocated, root, function, file, loaded>>

\* TTree.__init__ for the trees of rt (tree -> root node), each on a node
\* just made by Node(function): root.set_id(0), id_iterator = 1,
\* __nodes = [root]
InitWith(rt) ==
  /\ allocated = Cardinality(DOMAIN rt)
  /\ parent = [n \in Nodes |-> NoNode]
  /\ children = [n \in Nodes |-> <<>>]
  /\ root = rt
  /\ id = [n \in Nodes |-> IF \E t \in DOMAIN rt : rt[t] = n THEN 0 ELSE NoId]
  /\ id_iterator = [t \in DOMAIN rt |-> 1]
  /\ nodes = [t \in DOMAIN rt |-> <<rt[t]>>]
  /\ err = "none"
  /\ function = [n \in Nodes |-> IF \E t \in DOMAIN rt : rt[t] = n
                                 THEN RootFunction ELSE NoFunction]
  /\ file = <<>>
  /\ loaded = <<>>

Init == InitWith([t \in {"t1"} |-> 1])

\* the identifiers a caller may name: every one a tree can have handed out
\* (0..MaxId-1, as id_iterator stays <= MaxId)
Ids == 0..(MaxId - 1)

Paths == SeqsUpTo(Live, MaxPathLen)
PathArgs == {ListArg(q) : q \in Paths} \cup {NodeArg(n) : n \in Live}

\* a node no tree has numbered or listed, and that hangs under no tree's root
Untouched(n) ==
  /\ id[n] = NoId
  /\ \A t \in Trees : n \notin Range(nodes[t]) \cup Reachable(children, root[t])

\* Node.__init__(function, parent): the client constructs the next Node,
\* detached or under a node of a structure it is building outside the trees
NewNode(fn, p) ==
  /\ allocated < NumNodes
  /\ p # NoNode => Untouched(p)
  /\ allocated' = allocated + 1
  /\ LET r == SetParent(View("t1"), allocated + 1, p) IN
     /\ parent' = r.parent
     /\ children' = r.children
  /\ function' = [function EXCEPT ![allocated + 1] = fn]
  /\ err' = "none"
  /\ UNCHANGED <<id, root, id_iterator, nodes, file, loaded>>

AddNode(t, target, new_node) ==
  Commit(t, add_node(View(t), target, new_node))

AddNodes(t, target, new_nodes) ==
  Commit(t, add_nodes(View(t), target, new_nodes))

AddNodesById(t, target_id, new_nodes) ==
  Commit(t, add_nodes_byid(View(t), target_id, new_nodes))

AddNewpath(t, target, path) ==
  Commit(t, add_newpath(View(t), target, path))

AddNewpathById(t, target_id, path) ==
  Commit(t, add_newpath_byid(View(t), target_id, path))

\* A client of one tree.  No TTree method reads Node.function, so every node
\* it constructs is made on op1.
Next ==
  \/ \E p \in LiveOrNone : NewNode("op1", p)
  \/ \E t \in Trees, target \in LiveOrNone, new_node \in LiveOrNone :
       AddNode(t, target, new_node)
  \/ \E t \in Trees, target \in LiveOrNone, new_nodes \in Paths :
       AddNodes(t, target, new_nodes)
  \/ \E t \in Trees, target_id \in Ids, new_nodes \in Paths :
       AddNodesById(t, target_id, new_nodes)
  \/ \E t \in Trees, target \in LiveOrNone, path \in PathArgs :
       AddNewpath(t, target, path)
  \/ \E t \in Trees, target_id \in Ids, path \in PathArgs :
       AddNewpathById(t, target_id, path)

Spec == Init /\ [][Next]_vars

\* Two TTree objects over the same nodes, driven through add_node and
\* add_newpath_byid with a single-node path: the smallest client that can
\* hand a node numbered by one tree to the other.
InitTwo == InitWith([t \in {"t1", "t2"} |-> IF t = "t1" THEN 1 ELSE 2])

NextTwo ==
  \/ NewNode("op1", NoNode)
  \/ \E t \in Trees, target \in Live, new_node \in Live :
       AddNode(t, target, new_node)
  \/ \E t \in Trees, target_id \in Ids, n \in Live :
       AddNewpathById(t, target_id, NodeArg(n))

SpecTwo == InitTwo /\ [][NextTwo]_vars

\* ----------------------------------------------------------- Node.copy
\* "self.children = children" through anytree's children setter: each child
\* in order gets "child.parent = self"
RECURSIVE set_children(_, _, _)
set_children(s, n, cs) ==
  IF cs = <<>> THEN s
  ELSE LET s1 == SetParent(s, Head(cs), n) IN
       IF s1.err # "none" THEN s1
       ELSE set_children(s1, n, Tail(cs))

\* Node.copy: Node(self.function, self.parent, self.children).  The
\* constructor sets the new node's parent, leaves its id None and, as
\* self.children is a tuple and never None, assigns the children.
Copy(n) ==
  /\ allocated < NumNodes
  /\ allocated' = allocated + 1
  /\ function' = [function EXCEPT ![allocated + 1] = function[n]]
  /\ LET s1 == SetParent(View("t1"), allocated + 1, parent[n])
         r == set_children(s1, allocated + 1, children[n])
     IN /\ parent' = r.parent
        /\ children' = r.children
        /\ err' = r.err
  /\ UNCHANGED <<id, root, id_iterator, nodes, file, loaded>>

\* A client of one tree that also copies nodes.
NextCopy ==
  \/ \E fn \in Functions, p \in LiveOrNone : NewNode(fn, p)
  \/ \E t \in Trees, target \in Live, new_node \in Live :
       AddNode(t, target, new_node)
  \/ \E n \in Live : Copy(n)

SpecCopy == Init /\ [][NextCopy]_vars

\* ----------------------------------------------------------- save, load_tree
\* the TTree object t as pickle walks it: its own fields (the name it was
\* constructed with, root, id_iterator, __nodes) and behind them the fields
\* of the Node objects
Self(t) ==
  [name |-> t, root |-> root[t], id_iterator |-> id_iterator[t],
   nodes |-> nodes[t], parent |-> parent, children |-> children, id |-> id,
   function |-> function]

\* pickle's memo: every Node object the walk meets, once, in the order of
\* the first meeting (the node, then behind its parent link, then behind its
\* children links)
RECURSIVE Visit(_, _, _)
RECURSIVE VisitList(_, _, _)
Visit(o, memo, n) ==
  IF n = NoNode \/ n \in Range(memo) THEN memo
  ELSE VisitList(o, Visit(o, Append(memo, n), o.parent[n]), o.children[n])
VisitList(o, memo, ns) ==
  IF ns = <<>> THEN memo ELSE VisitList(o, Visit(o, memo, Head(ns)), Tail(ns))

\* the walk of pickle.dump(self): self.root, then self.__nodes
Memo(o) == VisitList(o, Visit(o, <<>>, o.root), o.nodes)

\* an object reference in the file: the object's position in the memo, 0 for None
Ref(memo, n) ==
  IF n = NoNode THEN 0 ELSE CHOOSE i \in 1..Len(memo) : memo[i] = n
RefList(memo, ns) == [i \in 1..Len(ns) |-> Ref(memo, ns[i])]

\* TTree.save: pickle.dump(self, handle), the bytes written
save(o) ==
  LET memo == Memo(o) IN
  [name |-> o.name,
   root |-> Ref(memo, o.root),
   id_iterator |-> o.id_iterator,
   nodes |-> RefList(memo, o.nodes),
   objects |-> [i \in 1..Len(memo) |->
                  [function |-> o.function[memo[i]],
                   parent |-> Ref(memo, o.parent[memo[i]]),
                   children |-> RefList(memo, o.children[memo[i]]),
                   id |-> o.id[memo[i]]]]]

\* load_tree: pickle.load(handle), a TTree over fresh Node objects, one per
\* memo position
load_tree(bytes) ==
  [name |-> bytes.name,
   root |-> bytes.root,
   id_iterator |-> bytes.id_iterator,
   nodes |-> bytes.nodes,
   parent |-> [i \in DOMAIN bytes.objects |-> bytes.objects[i].parent],
   children |-> [i \in DOMAIN bytes.objects |-> bytes.objects[i].children],
   id |-> [i \in DOMAIN bytes.objects |-> bytes.objects[i].id],
   function |-> [i \in DOMAIN bytes.objects |-> bytes.objects[i].function]]

\* tree.save(file)
Save(t) ==
  /\ file' = <<save(Self(t))>>
  /\ err' = "none"
  /\ UNCHANGED <<allocated, parent, children, id, root, id_iterator, nodes,
                 function, loaded>>

\* load_tree(file), of a file that save has written
LoadTree ==
  /\ file # <<>>
  /\ loaded' = <<load_tree(file[1])>>
  /\ err' = "none"
  /\ UNCHANGED <<allocated, parent, children, id, root, id_iterator, nodes,
                 function, file>>

\* A client that builds one tree by attach operations, saves it once and
\* loads the file once.
NextPickle ==
  \/ /\ file = <<>>
     /\ \E fn \in Functions : NewNode(fn, NoNode)
  \/ /\ file = <<>>
     /\ \E t \in Trees, target \in Live, new_node \in Live :
          AddNode(t, target, new_node)
  \/ /\ file = <<>>
     /\ \E t \in Trees, target \in Live, q \in Paths :
          AddNewpath(t, target, ListArg(q))
  \/ /\ file = <<>>
     /\ \E t \in Trees : Save(t)
  \/ /\ loaded = <<>>
     /\ LoadTree

SpecPickle == Init /\ [][NextPickle]_vars

\* ----------------------------------------------------------- properties
\* what a call may change: the heap and the trees' fields
heap == <<parent, children, id, id_iterator, nodes>>

\* the result r left the heap and the tree's fields as they were in s
Same(r, s) ==
  /\ r.parent = s.parent
  /\ r.children = s.children
  /\ r.id = s.id
  /\ r.nodes = s.nodes
  /\ r.id_iterator = s.id_iterator

Distinct(q) == \A i, j \in 1..Len(q) : i # j => q[i] # q[j]

\* the ways a caller can pass the path q: as a list, or, for one node, as
\* the node itself
ArgsFor(q) == {ListArg(q)} \cup (IF Len(q) = 1 THEN {NodeArg(q[1])} ELSE {})

\* C1 -- Identifier uniqueness: the nodes reachable from a tree's root carry
\* pairwise distinct identifiers, each in [0, id_iterator).
C1_IdentifierUniqueness ==
  \A t \in Trees :
    LET R == Reachable(children, root[t]) IN
    /\ \A n \in R : id[n] \in 0..(id_iterator[t] - 1)
    /\ \A n, m \in R : n # m => id[n] # id[m]

\* C2 -- Membership closure: the member list __nodes holds exactly the nodes
\* reachable from root through children links.
C2_MembershipClosure ==
  \A t \in Trees : Range(nodes[t]) = Reachable(children, root[t])

\* C3 -- Path chaining: for a member target and a non-empty path of distinct
\* nodes without identifier, add_newpath returns with the path chained under
\* target (p0 child of target, p(i) child of p(i-1)) and numbered n, n+1, ...
\* with n the id_iterator before the call; a single node passed instead of a
\* list behaves as the one-element path.
C3_PathChaining ==
  [][\A t \in Trees, target \in Live, q \in Paths :
       ( /\ target \in Range(nodes[t])
         /\ Len(q) >= 1
         /\ Distinct(q)
         /\ \A i \in 1..Len(q) : id[q[i]] = NoId
         /\ \E arg \in ArgsFor(q) : AddNewpath(t, target, arg) )
       => /\ err' = "none"
          /\ parent'[q[1]] = target
          /\ q[1] \in Range(children'[target])
          /\ \A i \in 2..Len(q) :
               parent'[q[i]] = q[i - 1] /\ q[i] \in Range(children'[q[i - 1]])
          /\ \A i \in 1..Len(q) : id'[q[i]] = id_iterator[t] + i - 1]_vars

\* C4 -- Precondition rejection: if an element of the path has an identifier
\* set (anything but None, 0 included), add_newpath and add_newpath_byid
\* report a failure and leave everything unchanged.
C4_PreconditionRejection ==
  [][\A t \in Trees, q \in Paths :
       ( /\ \E i \in 1..Len(q) : id[q[i]] # NoId
         /\ \E arg \in ArgsFor(q) :
              \/ \E target \in LiveOrNone : AddNewpath(t, target, arg)
              \/ \E target_id \in Ids : AddNewpathById(t, target_id, arg) )
       => err' # "none" /\ UNCHANGED heap]_vars

\* add_node(target, x) for each x of q, in order
RECURSIVE EachAddNode(_, _, _)
EachAddNode(s, target, q) ==
  IF q = <<>> THEN s
  ELSE EachAddNode(add_node(s, target, Head(q)), target, Tail(q))

\* C5 -- Batch attach equivalence: add_nodes(target, nodes) on a member
\* target and new nodes leaves the same tree as add_node(target, x) for each
\* x in list order: every x a child of target, numbered consecutively.
\* (In every reachable state, for every such call: add_nodes changes
\* nothing, so a step of it is no step at all and the property is stated on
\* the state the call starts from.)
C5_BatchAttachEquivalence ==
  \A t \in Trees, target \in Live, q \in Paths :
    (target \in Range(nodes[t]) /\ Distinct(q) /\ \A i \in 1..Len(q) : Untouched(q[i]))
    => LET r == add_nodes(View(t), target, q) IN
       /\ Same(r, EachAddNode(View(t), target, q))
       /\ \A i \in 1..Len(q) :
            r.parent[q[i]] = target /\ r.id[q[i]] = id_iterator[t] + i - 1

\* C6 -- Lookup-by-identifier batch attach: add_nodes_byid(targetId, nodes)
\* makes every new node a child of the unique member whose identifier is
\* targetId; when no member has that identifier the tree is left unchanged.
C6_BatchAttachById ==
  [][\A t \in Trees, target_id \in Ids, q \in Paths :
       LET M == {n \in Range(nodes[t]) : id[n] = target_id} IN
       AddNodesById(t, target_id, q)
       => /\ M = {} => UNCHANGED heap
          /\ ( /\ Cardinality(M) = 1
               /\ Distinct(q)
               /\ \A i \in 1..Len(q) : Untouched(q[i]) )
             => \A m \in M, i \in 1..Len(q) :
                  parent'[q[i]] = m /\ q[i] \in Range(children'[m])]_vars

\* C7 -- Silent no-op on invalid attach: add_node raises nothing and changes
\* nothing when target is no member or an argument is null; for a member
\* target and a detached new_node it sets the parent, lists the node and
\* gives it the identifier id_iterator held before the call.
C7_AddNode ==
  [][\A t \in Trees, target \in LiveOrNone, new_node \in LiveOrNone :
       AddNode(t, target, new_node)
       => /\ (target = NoNode \/ new_node = NoNode \/ target \notin Range(nodes[t]))
             => err' = "none" /\ UNCHANGED heap
          /\ ( /\ target \in Range(nodes[t])
               /\ new_node # NoNode
               /\ parent[new_node] = NoNode
               /\ id[new_node] = NoId )
             => /\ err' = "none"
                /\ parent'[new_node] = target
                /\ new_node \in Range(nodes'[t])
                /\ id'[new_node] = id_iterator[t]
                /\ id_iterator'[t] = id_iterator[t] + 1]_vars

\* C8 -- All-or-nothing path attachment: whenever add_newpath or
\* add_newpath_byid ends in an error, everything is as before the call.
C8_AllOrNothing ==
  [][\A t \in Trees, arg \in PathArgs :
       ( /\ err' # "none"
         /\ \/ \E target \in LiveOrNone : AddNewpath(t, target, arg)
            \/ \E target_id \in Ids : AddNewpathById(t, target_id, arg) )
       => UNCHANGED heap]_vars

\* C9 -- Identifier stability: no step changes an identifier that is set.
C9_IdentifierStability ==
  [][\A n \in Nodes : id[n] # NoId => id'[n] = id[n]]_vars

\* C10 -- Path attach by identifier with several matches: when more than one
\* reachable node carries targetId, add_newpath_byid leaves every match with
\* its own chain attached under it (here a chain of one node: every match
\* has gained a child, and no two matches share it).
C10_EveryMatchGetsAChain ==
  [][\A t \in Trees, target_id \in Ids, n \in Live :
       LET M == {m \in Reachable(children, root[t]) : id[m] = target_id} IN
       ( /\ Cardinality(M) >= 2
         /\ id[n] = NoId
         /\ AddNewpathById(t, target_id, NodeArg(n)) )
       => /\ err' = "none"
          /\ \A m \in M : Range(children'[m]) \ Range(children[m]) # {}]_vars

\* C11 -- Identifier counter: id_iterator is 1 after construction, never
\* decreases, is left unchanged by every failed call, and a call that
\* returns advances it by the number of nodes it has numbered.
C11_IdentifierCounter ==
  [][\A t \in Trees :
       /\ id_iterator'[t] >= id_iterator[t]
       /\ err' # "none" => id_iterator'[t] = id_iterator[t]
       /\ err' = "none"
          => id_iterator'[t] - id_iterator[t]
               = Cardinality({n \in Nodes : id'[n] # id[n]})]_vars

\* C12 -- Root invariant: the root has identifier 0 and no parent, and no
\* other node reachable from it has identifier 0.
C12_RootInvariant ==
  \A t \in Trees :
    /\ id[root[t]] = 0
    /\ parent[root[t]] = NoNode
    /\ \A n \in Reachable(children, root[t]) \ {root[t]} : id[n] # 0

\* C13 -- Identifier iff membership: a node has an identifier set if and
\* only if it is reachable from the root of exactly one tree.
C13_IdentifierIffMember ==
  \A n \in Live :
    id[n] # NoId
    <=> Cardinality({t \in Trees : n \in Reachable(children, root[t])}) = 1

\* C15 -- Path nodes become usable targets: after add_newpath or
\* add_newpath_byid has returned on a member target, every node of the path
\* is a tree member, so that add_node(path[i], x) with a detached x makes x a
\* child of path[i] and gives it the next identifier.
C15_PathNodesAreTargets ==
  [][\A t \in Trees, q \in Paths :
       ( /\ Len(q) >= 1
         /\ err' = "none"
         /\ \/ \E target \in Range(nodes[t]) : AddNewpath(t, target, ListArg(q))
            \/ \E target_id \in Ids :
                 /\ \E m \in Range(nodes[t]) \cap Reachable(children, root[t]) :
                      id[m] = target_id
                 /\ AddNewpathById(t, target_id, ListArg(q)) )
       => \A i \in 1..Len(q) :
            /\ q[i] \in Range(nodes'[t])
            /\ \A x \in Live :
                 Untouched(x)'
                 => LET r == add_node(View(t)', q[i], x) IN
                    /\ r.parent[x] = q[i]
                    /\ r.id[x] = id_iterator'[t]]_vars

\* C16 -- By-identifier and by-reference path attach agree: when exactly one
\* node reachable from root carries targetId, add_newpath_byid(targetId, path)
\* ends in the same state and with the same error outcome as
\* add_newpath(thatNode, path) started from the same state.
C16_ByIdAgreesWithByRef ==
  \A t \in Trees, target_id \in Ids, arg \in PathArgs :
    LET M == {m \in Reachable(children, root[t]) : id[m] = target_id} IN
    Cardinality(M) = 1
    => \A m \in M :
         LET byid == add_newpath_byid(View(t), target_id, arg)
             byref == add_newpath(View(t), m, arg)
         IN Same(byid, byref) /\ byid.err = byref.err

\* a path node hangs, numbered, under a node other than the root that
\* carries an identifier: a path has been attached to a target that an
\* identifier resolves
C16_Witness ==
  /\ err = "none"
  /\ \E t \in Trees, m \in Live, x \in Live :
       /\ m \in Reachable(children, root[t]) \ {root[t]}
       /\ id[m] = 1
       /\ parent[x] = m
       /\ id[x] = 2
       /\ x \notin Range(nodes[t])

\* C17 -- Unresolved identifier on path attach: add_newpath_byid(targetId,
\* path) with a path whose nodes have no identifier and a targetId that no
\* reachable node carries raises nothing and changes nothing.
C17_UnresolvedIdIsNoOp ==
  \A t \in Trees, target_id \in Ids, q \in Paths :
    ( /\ \A i \in 1..Len(q) : id[q[i]] = NoId
      /\ \A m \in Reachable(children, root[t]) : id[m] # target_id )
    => \A arg \in ArgsFor(q) :
         LET r == add_newpath_byid(View(t), target_id, arg) IN
         r.err = "none" /\ Same(r, View(t))

\* the case of C17: a returned call has left a detached node without
\* identifier next to a tree of two nodes in which no node carries
\* identifier 2
C17_Witness ==
  /\ err = "none"
  /\ \E t \in Trees, x \in Live :
       /\ id[x] = NoId /\ parent[x] = NoNode /\ children[x] = <<>>
       /\ Cardinality(Reachable(children, root[t])) = 2
       /\ \A m \in Reachable(children, root[t]) : id[m] # 2

\* the nodes that hang under a tree's root and carry an identifier
Numbered ==
  {n \in Nodes : id[n] # NoId /\ \E t \in Trees : n \in Reachable(children, root[t])}

\* C18: Node.copy() leaves its source untouched.  For any node n, after
\* c = n.copy(): n has the same parent, the same children in the same order
\* and the same identifier as before; c is a new node without identifier
\* that refers to the same operation, parent and children as n; and the set
\* of nodes reachable from a tree root with an identifier is unchanged.
C18_CopyLeavesSourceUntouched ==
  [][\A n \in Live :
       Copy(n)
       => /\ parent'[n] = parent[n]
          /\ children'[n] = children[n]
          /\ id'[n] = id[n]
          /\ allocated' \notin Live
          /\ id'[allocated'] = NoId
          /\ function'[allocated'] = function[n]
          /\ parent'[allocated'] = parent[n]
          /\ children'[allocated'] = children[n]
          /\ Numbered' = Numbered]_vars

\* node m of the loaded tree l mirrors node n of the tree object o, and so
\* do their subtrees: same identifier, same operation, the same number of
\* children, each child of m linked back to m and mirroring the child of n
\* at the same position
RECURSIVE SameSubtree(_, _, _, _)
SameSubtree(o, n, l, m) ==
  /\ l.id[m] = o.id[n]
  /\ l.function[m] = o.function[n]
  /\ Len(l.children[m]) = Len(o.children[n])
  /\ \A i \in 1..Len(o.children[n]) :
       /\ l.parent[l.children[m][i]] = m
       /\ SameSubtree(o, o.children[n][i], l, l.children[m][i])

\* C14: round trip.  For any tree T built by any sequence of attach
\* operations, load_tree applied to the file written by T.save yields a tree
\* with the same name, root identifier 0, the same parent/child
\* relationships in the same child order, the same operation name and
\* identifier on every node, and the same id_iterator.
C14_RoundTrip ==
  [][\A t \in Trees :
       (LoadTree /\ file = <<save(Self(t))>>)
       => LET l == loaded'[1] IN
          /\ l.name = Self(t).name
          /\ l.id[l.root] = 0
          /\ l.id_iterator = id_iterator[t]
          /\ (l.parent[l.root] = 0) <=> (parent[root[t]] = NoNode)
          /\ SameSubtree(Self(t), root[t], l, l.root)]_vars

TypeOK ==
  /\ parent \in [Nodes -> LiveOrNone]
  /\ \A n \in Nodes : Range(children[n]) = {m \in Nodes : parent[m] = n}
  /\ \A n \in Nodes : Len(children[n]) = Cardinality(Range(children[n]))
  /\ \A n \in Nodes \ Live : parent[n] = NoNode /\ id[n] = NoId
  /\ \A t \in Trees : id_iterator[t] \in 1..MaxId
  /\ \A n \in Nodes : function[n] = NoFunction <=> n \notin Live
====
